---------------------------- MODULE Spec2Model ----------------------------
(***************************************************************************)
(* Humidity/temperature monitor (GUIProject/main.py, pseudo_sensor.py).    *)
(*                                                                         *)
(* Units.  Humidity, temperature and thresholds are floats in the program; *)
(* here they are integers counting quarters (0.25), so that 20.0 is 80.    *)
(* Quarters are exact binary fractions, which keeps the one-decimal        *)
(* formatting of the labels (round half to even) exact.  Timestamps count  *)
(* half seconds, so that fmt_ts, which renders whole seconds, is lossy.    *)
(* Formatted values are integers too: tenths for "{:.1f}", whole seconds   *)
(* for fmt_ts.                                                             *)
(***************************************************************************)
EXTENDS Integers, Sequences, FiniteSets, TLC

VARIABLES
    h_index, t_index, hum_val, temp_val,      \* PseudoSensor fields
    rng_seed, rng_pos,                        \* the random module's generator
    now,                                      \* the wall clock time.time() reads
    rows, conn_open,                          \* table readings, self.conn
    h_label, t_label, ts_label, h_bar, t_bar, \* live readings
    h_alarm, t_alarm, alarm_label,            \* thresholds and indicator
    status_label,
    btn_read_one_enabled, btn_read_ten_enabled,
    timer_active, batch_remaining,            \* self.batch_timer, self.batch_remaining
    dialog,                                   \* the modal dialog on screen, if any
    running,                                  \* the window is open and the event loop runs
    op,                                       \* history: the handler that ran last
    batch_start_rows, batch_ticks,            \* history: rows at read_ten, ticks since
    start_rows,                               \* history: rows when the application started
    raised,                                   \* the exception a slot let escape, if any
    stack,                                    \* the handlers that have begun and not returned
    arg_n, ret_ts, ret_rows, ret_ht           \* call level: the last argument of and the
                                              \* values last returned by _fetch_last_n,
                                              \* _insert_reading and generate_values

sensorVars  == <<h_index, t_index, hum_val, temp_val>>
storeVars   == <<rows, conn_open>>
displayVars == <<h_label, t_label, ts_label, h_bar, t_bar, alarm_label, status_label>>
alarmVars   == <<h_alarm, t_alarm>>
batchVars   == <<btn_read_one_enabled, btn_read_ten_enabled, timer_active, batch_remaining>>
histVars    == <<op, batch_start_rows, batch_ticks, start_rows>>
callVars    == <<arg_n, ret_ts, ret_rows, ret_ht>>
vars == <<sensorVars, rng_seed, rng_pos, now, storeVars, displayVars, alarmVars,
          batchVars, dialog, running, raised, stack, histVars, callVars>>

\* Everything the program itself holds (no history, no call-level observation).
progVars == <<sensorVars, rng_seed, rng_pos, now, storeVars, displayVars, alarmVars,
              batchVars, dialog, running, raised, stack>>

(***************************************************************************)
(* Bounds of the model.                                                    *)
(***************************************************************************)
MaxRows == 11        \* rows the application store may hold
MaxTime == 1         \* last clock value (half seconds)
MaxStoreRows == 3    \* rows in the call-level store specification
MaxFetch == 4        \* largest n handed to _fetch_last_n there
MaxRun == 16         \* rows the store may hold in the long-run specification

(***************************************************************************)
(* Program constants.                                                      *)
(***************************************************************************)
BatchSize == 10      \* read_ten: self.batch_remaining = 10
FetchLimit == 10     \* show_stats, show_last10_records: _fetch_last_n(10)

Quarters(x) == 4 * x
Min2(a, b) == IF a <= b THEN a ELSE b
Max2(a, b) == IF a >= b THEN a ELSE b

(***************************************************************************)
(* pseudo_sensor.py                                                        *)
(***************************************************************************)
h_range == << 0, 20, 20, 40, 40, 60, 60, 80, 80, 90, 70, 50, 30, 10, 0 >>
t_range == << -20, -10, 0, 10, 30, 50, 70, 85, 95, 100, 90, 70, 50, 30, 10 >>

\* The band at a 0-based index, in quarters.
HBand(i) == Quarters(h_range[i + 1])
TBand(i) == Quarters(t_range[i + 1])

(* random.random(): the generator is seeded once, when the random module is *)
(* imported, and is a deterministic stream afterwards.  A stream gives      *)
(* random() in twentieths, 0..19 (random() < 1); the seed picks the stream. *)
RandomStreams == << <<0>>, <<1, 10, 19, 0, 5>> >>
Seeds == 1..Len(RandomStreams)
Random(seed, pos) ==
    LET s == RandomStreams[seed] IN s[(pos % Len(s)) + 1]

\* random.uniform(a, b) = a + (b - a) * random(); a, b in units, result in quarters.
Uniform(a, b, seed, pos) == Quarters(a) + (Quarters(b - a) * Random(seed, pos)) \div 20

\* The clamps of generate_values.
\* (faulty variant: the temperature is returned unclamped)
ClampTMissing(v) == v

ClampH(v) == Max2(Quarters(0), Min2(v, Quarters(100)))
ClampT(v) == Max2(Quarters(-20), Min2(v, Quarters(100)))

\* The index after the roll.
\* (faulty variant: the index is rolled by two)
RollTwice(i, n) == (i + 2) % n

Roll(i, n) == (i + 1) % n

(* generate_values as a function of the indices and of the two draws,      *)
(* uh = random.uniform(0, 10) and ut = random.uniform(0, 5): the new       *)
(* fields and the pair returned.                                           *)
generate_values(hi, ti, uh, ut) ==
    LET hv == HBand(hi) + uh
        tv == TBand(ti) + ut
    IN  [ hum_val |-> hv, temp_val |-> tv,
          h_index |-> Roll(hi, Len(h_range)),
          t_index |-> Roll(ti, Len(t_range)),
          h |-> ClampH(hv), t |-> ClampT(tv) ]

(***************************************************************************)
(* main.py: the store                                                      *)
(***************************************************************************)
NoTs == -1   \* the ts=None default of _insert_reading

Row(ts, h, t) == [ts |-> ts, humidity |-> h, temperature |-> t]

\* INSERT INTO readings ...: the table after the insert (rowid order).
\* (faulty variant: the new row overwrites the last one)
InsertReadingOverLast(rs, h, t, ts) ==
    IF rs = << >> THEN << Row(ts, h, t) >> ELSE [rs EXCEPT ![Len(rs)] = Row(ts, h, t)]

_insert_reading(rs, h, t, ts) == Append(rs, Row(ts, h, t))

(* ORDER BY ts DESC leaves the order of rows with equal ts to the SQLite   *)
(* build: the model lets a query return them in rowid order or in reverse  *)
(* rowid order.                                                            *)
TieOrders == {"rowid_asc", "rowid_desc"}

\* Row i comes before row j in the result.
\* (faulty variant: ORDER BY ts ASC)
BeforeAscending(rs, i, j, tie) ==
    \/ rs[i].ts < rs[j].ts
    \/ /\ rs[i].ts = rs[j].ts
       /\ IF tie = "rowid_asc" THEN i < j ELSE i > j

Before(rs, i, j, tie) ==
    \/ rs[i].ts > rs[j].ts
    \/ /\ rs[i].ts = rs[j].ts
       /\ IF tie = "rowid_asc" THEN i < j ELSE i > j

(* ORDER BY ts DESC: the row at place k is the one that k - 1 rows come    *)
(* before.                                                                 *)
OrderBy(rs, tie) ==
    [k \in 1..Len(rs) |->
        rs[CHOOSE i \in 1..Len(rs) :
              Cardinality({j \in 1..Len(rs) : Before(rs, j, i, tie)}) = k - 1]]

\* LIMIT n, n >= 0.
Limit(s, n) == SubSeq(s, 1, Min2(n, Len(s)))

\* SELECT ts, humidity, temperature FROM readings ORDER BY ts DESC LIMIT n
_fetch_last_n(rs, n, tie) == Limit(OrderBy(rs, tie), n)

(***************************************************************************)
(* main.py: formatting and display                                         *)
(***************************************************************************)
\* fmt_ts: the local time of the whole second holding ts (ts in half seconds).
fmt_ts(ts) == ts \div 2

(* "{:.1f}" of a float that is a whole number of quarters: tenths, the     *)
(* exact tie (x.25, x.75) rounded to the even tenth.                       *)
Fmt1(v) ==
    LET q == (10 * v) \div 4
        r == (10 * v) % 4
    IN  IF r = 0 THEN q
        ELSE IF r = 2 THEN (IF q % 2 = 0 THEN q ELSE q + 1)
        ELSE IF r = 1 THEN q ELSE q + 1

\* int(x): truncation towards zero.
IntOf(v) == IF v >= 0 THEN v \div 4 ELSE -((-v) \div 4)

Unset == << >>     \* "--" / "—": a label that shows no value yet

\* (h > self.h_alarm.value()) or (t > self.t_alarm.value())
\* (faulty variant: a value at its threshold alarms)
AlarmOnAtThreshold(h, t, ha, ta) == (h >= ha) \/ (t >= ta)

_check_alarms(h, t, ha, ta) == (h > ha) \/ (t > ta)

\* _set_alarm_state: the text of the indicator.
_set_alarm_state(alarm_on) == IF alarm_on THEN "ALARM!" ELSE "No alarms"

\* (faulty variant: called without ts, the timestamp label is left as it is)
UpdateLatestDisplayNoTs(h, t, ts) ==
    /\ h_label' = << Fmt1(h) >>
    /\ t_label' = << Fmt1(t) >>
    /\ h_bar' = Max2(0, Min2(IntOf(h), 100))
    /\ t_bar' = Max2(-20, Min2(IntOf(t), 100))
    /\ ts_label' = ts_label
    /\ alarm_label' = _set_alarm_state(_check_alarms(h, t, h_alarm, t_alarm))

(* _update_latest_display(h, t, ts) with ts given, and the _check_alarms   *)
(* it ends with: the new labels, bars and indicator.                       *)
_update_latest_display(h, t, ts) ==
    /\ h_label' = << Fmt1(h) >>
    /\ t_label' = << Fmt1(t) >>
    /\ h_bar' = Max2(0, Min2(IntOf(h), 100))
    /\ t_bar' = Max2(-20, Min2(IntOf(t), 100))
    /\ ts_label' = << fmt_ts(ts) >>
    /\ alarm_label' = _set_alarm_state(_check_alarms(h, t, h_alarm, t_alarm))

NoDialog == [title |-> "", text |-> "", data |-> << >>]

(* A handler that has begun and not returned: where it stands (pc) and its *)
(* locals h, t, ts.  A handler that shows a modal dialog stands at "exec"  *)
(* until the dialog is closed.                                             *)
Frame(handler, pc) == [handler |-> handler, pc |-> pc, h |-> 0, t |-> 0, ts |-> NoTs]
Top(st) == st[Len(st)]
Pop(st) == SubSeq(st, 1, Len(st) - 1)

(***************************************************************************)
(* The application: state after SensorApp.__init__                         *)
(***************************************************************************)
\* readings.db outlives the process: what the table may hold at start.
InitialStores == { << >>, << Row(0, Quarters(10), Quarters(20)) >> }

HAlarmDefault == 85
TAlarmDefault == 90

\* Values the user types into the threshold spin boxes (quarters).
HAlarmChoices == { Quarters(HAlarmDefault), Quarters(20) }
TAlarmChoices == { Quarters(TAlarmDefault), Quarters(-10) }

\* PseudoSensor.__init__ and SensorApp.__init__, but for the seed and the table.
Constructed ==
    /\ h_index = 0 /\ t_index = 0
    /\ hum_val = HBand(0) /\ temp_val = TBand(0)
    /\ rng_pos = 0
    /\ now = 0
    /\ conn_open = TRUE
    /\ h_label = Unset /\ t_label = Unset /\ ts_label = Unset
    /\ h_bar = -1 /\ t_bar = -1
    /\ h_alarm = Quarters(HAlarmDefault) /\ t_alarm = Quarters(TAlarmDefault)
    /\ alarm_label = _set_alarm_state(FALSE)
    /\ status_label = << "Ready." >>
    /\ btn_read_one_enabled = TRUE /\ btn_read_ten_enabled = TRUE
    /\ timer_active = FALSE /\ batch_remaining = 0
    /\ dialog = NoDialog
    /\ running = TRUE
    /\ op = "init" /\ batch_start_rows = 0 /\ batch_ticks = 0
    /\ raised = ""
    /\ stack = << >>
    /\ arg_n = 0 /\ ret_ts = NoTs /\ ret_rows = << >> /\ ret_ht = << >>

Init ==
    /\ Constructed
    /\ rng_seed \in Seeds
    /\ rows \in InitialStores
    /\ start_rows = Len(rows)

(***************************************************************************)
(* Handlers                                                                *)
(***************************************************************************)
(* time.time(): the clock has stood still or moved on since it was last     *)
(* read (a wall clock that is set back is not modelled).                   *)
ClockReads == { c \in {now, now + 1} : c <= MaxTime }

(* h, t = self.sensor.generate_values(); ts = self._insert_reading(h, t);  *)
(* self._update_latest_display(h, t, ts=ts): the body read_one and         *)
(* _batch_read_tick share.                                                 *)
Sample ==
    \E ts \in ClockReads, g \in {generate_values(h_index, t_index,
                                                 Uniform(0, 10, rng_seed, rng_pos),
                                                 Uniform(0, 5, rng_seed, rng_pos + 1))} :
        /\ hum_val' = g.hum_val /\ temp_val' = g.temp_val
        /\ h_index' = g.h_index /\ t_index' = g.t_index
        /\ rng_pos' = rng_pos + 2
        /\ now' = ts
        /\ rows' = _insert_reading(rows, g.h, g.t, ts)
        /\ _update_latest_display(g.h, g.t, ts)
        /\ UNCHANGED <<rng_seed, conn_open, alarmVars, dialog, running, raised, stack, start_rows,
                   callVars>>

\* The user can reach the main window: it is open and no modal dialog covers it.
WindowUsable == running /\ dialog = NoDialog

(* read_one, reached through the clicked signal of an enabled Read 1       *)
(* button, while the table holds fewer than cap rows.                      *)
read_one_upto(cap) ==
    /\ WindowUsable
    /\ btn_read_one_enabled
    /\ Len(rows) < cap
    /\ Sample
    /\ status_label' = << "Read 1: done." >>
    /\ op' = "read_one"
    /\ UNCHANGED <<batchVars, batch_start_rows, batch_ticks>>

read_one == read_one_upto(MaxRows)

\* if self.batch_timer.isActive(): return
\* (faulty variant: the guard left out)
AlreadyRunningUnchecked == FALSE

AlreadyRunning == timer_active

(* read_ten.  The handler carries its own guard, so the request is let in  *)
(* in any state of the batch, whether or not the button shows enabled.  A  *)
(* batch starts while the table has room for its rows under cap.           *)
read_ten_upto(cap) ==
    /\ WindowUsable
    /\ IF AlreadyRunning
       THEN UNCHANGED <<batchVars, status_label, batch_start_rows, batch_ticks>>
       ELSE /\ Len(rows) + BatchSize <= cap
            /\ batch_remaining' = BatchSize
            /\ status_label' = << "Starting 10 reads..." >>
            /\ btn_read_one_enabled' = FALSE
            /\ btn_read_ten_enabled' = FALSE
            /\ timer_active' = TRUE
            /\ batch_start_rows' = Len(rows)
            /\ batch_ticks' = 0
    /\ op' = "read_ten"
    /\ UNCHANGED <<sensorVars, rng_seed, rng_pos, now, storeVars, alarmVars, dialog,
                   running, raised, stack, start_rows, callVars,
                   h_label, t_label, ts_label, h_bar, t_bar, alarm_label>>

read_ten == read_ten_upto(MaxRows)

\* if self.batch_remaining <= 0
\* (faulty variant: the batch stops one tick late)
BatchDoneLate(remaining) == remaining < 0

BatchDone(remaining) == remaining <= 0

\* self.batch_remaining -= 1 and what follows it in _batch_read_tick.
CountDown ==
    /\ batch_remaining' = batch_remaining - 1
    /\ IF BatchDone(batch_remaining - 1)
       THEN /\ timer_active' = FALSE
            /\ btn_read_one_enabled' = TRUE
            /\ btn_read_ten_enabled' = TRUE
            /\ status_label' = << "Read 10: complete." >>
       ELSE /\ UNCHANGED <<timer_active, btn_read_one_enabled, btn_read_ten_enabled>>
            /\ status_label' = << "Reading batch... remaining: ", batch_remaining - 1 >>
    /\ op' = "tick"
    /\ batch_ticks' = batch_ticks + 1
    /\ UNCHANGED batch_start_rows

(* The timer's timeout.  It fires on the event loop, also the nested loop  *)
(* of an open modal dialog.                                                *)
_batch_read_tick ==
    /\ running
    /\ timer_active
    /\ Sample
    /\ CountDown

(***************************************************************************)
(* show_stats, show_last10_records                                         *)
(***************************************************************************)
RECURSIVE SeqSum(_)
SeqSum(s) == IF s = << >> THEN 0 ELSE Head(s) + SeqSum(Tail(s))

\* min(xs), max(xs) of a non-empty list.
SeqMin(s) == CHOOSE x \in {s[i] : i \in 1..Len(s)} : \A j \in 1..Len(s) : x <= s[j]
SeqMax(s) == CHOOSE x \in {s[i] : i \in 1..Len(s)} : \A j \in 1..Len(s) : x >= s[j]

(* "{:.1f}" of mean(xs), xs whole numbers of quarters with the given sum:  *)
(* the tenths it may print.  mean returns the double nearest the exact     *)
(* mean; an exact tie that is a binary fraction rounds to the even tenth,  *)
(* a tie that is not one is decided by the double's last bit.              *)
FmtMean1(sum, n) ==
    LET num == 10 * sum
        den == 4 * n
        q == num \div den
        r == num % den
        binary == \E k \in {1, 2, 4, 8, 16, 32} : (sum * k) % den = 0
    IN  IF 2 * r < den THEN {q}
        ELSE IF 2 * r > den THEN {q + 1}
        ELSE IF binary THEN {IF q % 2 = 0 THEN q ELSE q + 1}
        ELSE {q, q + 1}

\* if not rows
\* (faulty variant: the empty result is not tested for)
NoRowsUnchecked(f) == FALSE

NoRows(f) == Len(f) = 0

NoReadings(title) == [title |-> title, text |-> "No readings available yet.", data |-> << >>]

\* The message of show_stats over the rows fetched: the sets of texts it may show.
StatsData(f) ==
    LET hs == [i \in 1..Len(f) |-> f[i].humidity]
        ts_vals == [i \in 1..Len(f) |-> f[i].temperature]
        newest_ts == f[1].ts
    IN  { << << Len(f), fmt_ts(newest_ts) >>,
             << Fmt1(SeqMin(hs)), Fmt1(SeqMax(hs)), havg >>,
             << Fmt1(SeqMin(ts_vals)), Fmt1(SeqMax(ts_vals)), tavg >> >> :
          havg \in FmtMean1(SeqSum(hs), Len(f)),
          tavg \in FmtMean1(SeqSum(ts_vals), Len(f)) }

\* (faulty variant: the rows are listed as fetched, newest first)
RecordLinesNewestFirst(f) ==
    [i \in 1..Len(f) |->
        << fmt_ts(f[i].ts), Fmt1(f[i].humidity), Fmt1(f[i].temperature) >>]

\* The lines of show_last10_records: rows[::-1], formatted.
RecordLines(f) ==
    [i \in 1..Len(f) |->
        << fmt_ts(f[Len(f) + 1 - i].ts), Fmt1(f[Len(f) + 1 - i].humidity),
           Fmt1(f[Len(f) + 1 - i].temperature) >>]

show_stats ==
    /\ WindowUsable
    /\ \E tie \in TieOrders :
         \E f \in {_fetch_last_n(rows, FetchLimit, tie)} :
           IF NoRows(f)
           THEN dialog' = NoReadings("Stats") /\ raised' = raised
           ELSE IF Len(f) = 0
           THEN \* newest_ts = rows[0][0]
                raised' = "IndexError" /\ dialog' = dialog
           ELSE /\ \E d \in StatsData(f) :
                     dialog' = [title |-> "Last 10 Stats", text |-> "Stats over last",
                                data |-> d]
                /\ raised' = raised
    /\ stack' = IF raised' = raised THEN Append(stack, Frame("show_stats", "exec")) ELSE stack
    /\ op' = "show_stats"
    /\ UNCHANGED <<sensorVars, rng_seed, rng_pos, now, storeVars, displayVars, alarmVars,
                   batchVars, running, batch_start_rows, batch_ticks, start_rows, callVars>>

show_last10_records ==
    /\ WindowUsable
    /\ \E tie \in TieOrders :
         \E f \in {_fetch_last_n(rows, FetchLimit, tie)} :
           IF NoRows(f)
           THEN dialog' = NoReadings("Last 10 Records")
           ELSE dialog' = [title |-> "Last 10 Records", text |-> "",
                           data |-> RecordLines(f)]
    /\ stack' = Append(stack, Frame("show_last10_records", "exec"))
    /\ op' = "show_last10_records"
    /\ UNCHANGED <<sensorVars, rng_seed, rng_pos, now, storeVars, displayVars, alarmVars,
                   batchVars, running, raised, batch_start_rows, batch_ticks, start_rows,
                   callVars>>

\* The user closes the message box or the records dialog; the handler returns.
CloseDialog ==
    /\ running
    /\ dialog # NoDialog
    /\ stack # << >> /\ Top(stack).pc = "exec"
    /\ dialog' = NoDialog
    /\ stack' = Pop(stack)
    /\ op' = "close_dialog"
    /\ UNCHANGED <<sensorVars, rng_seed, rng_pos, now, storeVars, displayVars, alarmVars,
                   batchVars, running, raised, batch_start_rows, batch_ticks, start_rows,
                   callVars>>

\* The user edits a threshold spin box.
\* (faulty variant: the edit re-evaluates the alarm on the rows' latest reading)
SetHAlarmRechecks ==
    /\ WindowUsable
    /\ \E v \in HAlarmChoices \ {h_alarm} :
         /\ h_alarm' = v
         /\ alarm_label' =
                IF rows = << >> THEN alarm_label
                ELSE _set_alarm_state(_check_alarms(rows[Len(rows)].humidity,
                                                    rows[Len(rows)].temperature, v, t_alarm))
    /\ op' = "edit_threshold"
    /\ UNCHANGED <<sensorVars, rng_seed, rng_pos, now, storeVars, t_alarm, batchVars, dialog,
                   h_label, t_label, ts_label, h_bar, t_bar, status_label,
                   running, raised, stack, batch_start_rows, batch_ticks, start_rows,
                   callVars>>

SetHAlarm ==
    /\ WindowUsable
    /\ \E v \in HAlarmChoices \ {h_alarm} : h_alarm' = v
    /\ op' = "edit_threshold"
    /\ UNCHANGED <<sensorVars, rng_seed, rng_pos, now, storeVars, displayVars, t_alarm,
                   batchVars, dialog, running, raised, stack, batch_start_rows,
                   batch_ticks, start_rows, callVars>>

SetTAlarm ==
    /\ WindowUsable
    /\ \E v \in TAlarmChoices \ {t_alarm} : t_alarm' = v
    /\ op' = "edit_threshold"
    /\ UNCHANGED <<sensorVars, rng_seed, rng_pos, now, storeVars, displayVars, h_alarm,
                   batchVars, dialog, running, raised, stack, batch_start_rows,
                   batch_ticks, start_rows, callVars>>

(* exit_app: self.conn.close(); self.close().  Closing the only window     *)
(* ends the event loop, and with it the timer's timeouts.                  *)
exit_app ==
    /\ WindowUsable
    /\ conn_open' = FALSE
    /\ running' = FALSE
    /\ op' = "exit_app"
    /\ UNCHANGED <<sensorVars, rng_seed, rng_pos, now, rows, displayVars, alarmVars,
                   batchVars, dialog, raised, stack, batch_start_rows, batch_ticks,
                   start_rows, callVars>>

Next ==
    \/ read_one
    \/ read_ten
    \/ _batch_read_tick
    \/ show_stats
    \/ show_last10_records
    \/ CloseDialog
    \/ SetHAlarm
    \/ SetTAlarm
    \/ exit_app

Spec == Init /\ [][Next]_vars

\* The event loop fires a due timeout: the timer is never starved while it runs.
FairSpec == Spec /\ WF_vars(_batch_read_tick)

(***************************************************************************)
(* The sensor alone: a PseudoSensor whose generate_values is called again  *)
(* and again, each draw a value of its range: a whole number, or a quarter  *)
(* off an end of the range.                                                *)
(***************************************************************************)
DrawsH == { Quarters(k) : k \in 0..10 } \cup { 1, Quarters(10) - 1 }
DrawsT == { Quarters(k) : k \in 0..5 } \cup { 1, Quarters(5) - 1 }

GenInit ==
    /\ Constructed
    /\ rng_seed = 1
    /\ rows = << >>
    /\ start_rows = 0

Generate ==
    \E uh \in DrawsH, ut \in DrawsT :
      \E g \in {generate_values(h_index, t_index, uh, ut)} :
        /\ hum_val' = g.hum_val /\ temp_val' = g.temp_val
        /\ h_index' = g.h_index /\ t_index' = g.t_index
        /\ ret_ht' = << g.h, g.t >>
        /\ op' = "generate_values"
        /\ UNCHANGED <<rng_seed, rng_pos, now, storeVars, displayVars, alarmVars, batchVars,
                       dialog, running, raised, stack, batch_start_rows, batch_ticks,
                       arg_n, ret_ts, ret_rows, start_rows>>

GenNext == Generate

GenSpec == GenInit /\ [][GenNext]_vars

(***************************************************************************)
(* The store alone: _insert_reading and _fetch_last_n called on the table. *)
(***************************************************************************)
StoreInit ==
    /\ Constructed
    /\ rng_seed = 1
    /\ rows = << >>
    /\ start_rows = 0

\* Readings handed to _insert_reading (quarters).
StoreReadings == { << Quarters(10), Quarters(20) >>, << Quarters(90), Quarters(95) >> }

\* ts arguments handed to _insert_reading: None, or a time.
StoreTsArgs == {NoTs} \cup (0..MaxTime)

\* _insert_reading(h, t, ts) and then _fetch_last_n(1).
InsertThenFetch ==
    /\ Len(rows) < MaxStoreRows
    /\ \E ht \in StoreReadings, a \in StoreTsArgs, tie \in TieOrders :
         \E ts \in (IF a = NoTs THEN ClockReads ELSE {a}) :
           /\ rows' = _insert_reading(rows, ht[1], ht[2], ts)
           /\ now' = IF a = NoTs THEN ts ELSE now
           /\ ret_ts' = ts
           /\ arg_n' = 1
           /\ ret_rows' = _fetch_last_n(_insert_reading(rows, ht[1], ht[2], ts), 1, tie)
    /\ op' = "insert_then_fetch"
    /\ UNCHANGED <<sensorVars, rng_seed, rng_pos, conn_open, displayVars, alarmVars,
                   batchVars, dialog, running, raised, stack, batch_start_rows,
                   batch_ticks, ret_ht, start_rows>>

\* _fetch_last_n(n)
Fetch ==
    /\ \E n \in 0..MaxFetch, tie \in TieOrders :
         /\ arg_n' = n
         /\ ret_rows' = _fetch_last_n(rows, n, tie)
    /\ op' = "fetch"
    /\ UNCHANGED <<sensorVars, rng_seed, rng_pos, now, storeVars, displayVars, alarmVars,
                   batchVars, dialog, running, raised, stack, batch_start_rows,
                   batch_ticks, ret_ts, ret_ht, start_rows>>

StoreNext ==
    \/ InsertThenFetch
    \/ Fetch

StoreSpec == StoreInit /\ [][StoreNext]_vars

(***************************************************************************)
(* The long run: the application sampling until the band indices have gone *)
(* round their 15 bands, the views left closed.                            *)
(***************************************************************************)
RunNext ==
    \/ read_one_upto(MaxRun)
    \/ read_ten_upto(MaxRun)
    \/ _batch_read_tick
    \/ SetHAlarm
    \/ SetTAlarm
    \/ exit_app

RunSpec == Init /\ [][RunNext]_vars

(***************************************************************************)
(* The handlers statement by statement.  The application has one thread:   *)
(* a click or a timeout is delivered only while an event loop runs, that   *)
(* of app.exec() when no handler is in progress, or that of a modal dialog *)
(* (QMessageBox.information, dlg.exec()) inside show_stats or              *)
(* show_last10_records.  read_one and _batch_read_tick run no event loop.  *)
(***************************************************************************)
\* (faulty variant: timeouts and clicks are delivered from a thread of their own)
EventLoopRunsAlways == TRUE

EventLoopRuns == IF stack = << >> THEN TRUE ELSE Top(stack).pc = "exec"

\* The handlers that sample, store and display.
Sampling == {"read_one", "_batch_read_tick"}
InProgress == {i \in DOMAIN stack : stack[i].handler \in Sampling}

Enter(handler) ==
    /\ stack' = Append(stack, Frame(handler, "generate"))
    /\ UNCHANGED <<sensorVars, rng_seed, rng_pos, now, storeVars, displayVars, alarmVars,
                   batchVars, dialog, running, raised, histVars, callVars>>

\* The clicked signal of the enabled Read 1 button is delivered.
read_one_called ==
    /\ EventLoopRuns
    /\ WindowUsable
    /\ btn_read_one_enabled
    /\ Len(rows) < MaxRows
    /\ Enter("read_one")

\* The timeout of the running timer is delivered.
_batch_read_tick_called ==
    /\ EventLoopRuns
    /\ running
    /\ timer_active
    /\ Len(rows) < MaxRows
    /\ Enter("_batch_read_tick")

\* h, t = self.sensor.generate_values()
call_generate_values ==
    /\ stack # << >> /\ Top(stack).pc = "generate"
    /\ \E g \in {generate_values(h_index, t_index,
                                  Uniform(0, 10, rng_seed, rng_pos),
                                  Uniform(0, 5, rng_seed, rng_pos + 1))} :
         /\ hum_val' = g.hum_val /\ temp_val' = g.temp_val
         /\ h_index' = g.h_index /\ t_index' = g.t_index
         /\ stack' = [stack EXCEPT ![Len(stack)] =
                         [@ EXCEPT !.pc = "insert", !.h = g.h, !.t = g.t]]
    /\ rng_pos' = rng_pos + 2
    /\ UNCHANGED <<rng_seed, now, storeVars, displayVars, alarmVars, batchVars, dialog,
                   running, raised, histVars, callVars>>

\* ts = self._insert_reading(h, t)
call_insert_reading ==
    /\ stack # << >> /\ Top(stack).pc = "insert"
    /\ \E ts \in ClockReads :
         /\ now' = ts
         /\ rows' = _insert_reading(rows, Top(stack).h, Top(stack).t, ts)
         /\ stack' = [stack EXCEPT ![Len(stack)] = [@ EXCEPT !.pc = "display", !.ts = ts]]
    /\ UNCHANGED <<sensorVars, rng_seed, rng_pos, conn_open, displayVars, alarmVars,
                   batchVars, dialog, running, raised, histVars, callVars>>

\* self._update_latest_display(h, t, ts=ts)
call_update_latest_display ==
    /\ stack # << >> /\ Top(stack).pc = "display"
    /\ _update_latest_display(Top(stack).h, Top(stack).t, Top(stack).ts)
    /\ stack' = [stack EXCEPT ![Len(stack)] = [@ EXCEPT !.pc = "return"]]
    /\ UNCHANGED <<sensorVars, rng_seed, rng_pos, now, storeVars, alarmVars, status_label,
                   batchVars, dialog, running, raised, histVars, callVars>>

\* self.status_label.setText("Read 1: done."), and read_one returns.
read_one_returns ==
    /\ stack # << >> /\ Top(stack).pc = "return" /\ Top(stack).handler = "read_one"
    /\ status_label' = << "Read 1: done." >>
    /\ op' = "read_one"
    /\ stack' = Pop(stack)
    /\ UNCHANGED <<sensorVars, rng_seed, rng_pos, now, storeVars, alarmVars, batchVars,
                   dialog, running, raised, batch_start_rows, batch_ticks, start_rows, callVars,
                   h_label, t_label, ts_label, h_bar, t_bar, alarm_label>>

\* The rest of _batch_read_tick, and it returns.
_batch_read_tick_returns ==
    /\ stack # << >> /\ Top(stack).pc = "return" /\ Top(stack).handler = "_batch_read_tick"
    /\ CountDown
    /\ stack' = Pop(stack)
    /\ UNCHANGED <<sensorVars, rng_seed, rng_pos, now, storeVars, alarmVars,
                   dialog, running, raised, start_rows, callVars,
                   h_label, t_label, ts_label, h_bar, t_bar, alarm_label>>

LoopNext ==
    \/ read_one_called
    \/ _batch_read_tick_called
    \/ call_generate_values
    \/ call_insert_reading
    \/ call_update_latest_display
    \/ read_one_returns
    \/ _batch_read_tick_returns
    \/ EventLoopRuns /\ read_ten
    \/ EventLoopRuns /\ show_stats
    \/ EventLoopRuns /\ show_last10_records
    \/ EventLoopRuns /\ CloseDialog
    \/ EventLoopRuns /\ SetHAlarm
    \/ EventLoopRuns /\ SetTAlarm
    \/ EventLoopRuns /\ exit_app

LoopSpec == Init /\ [][LoopNext]_vars

(***************************************************************************)
(* Properties                                                              *)
(***************************************************************************)
Sampled == op \in {"read_one", "tick"}
LastRow == rows[Len(rows)]
BatchComplete ==
    /\ ~timer_active
    /\ batch_remaining = 0
    /\ Len(rows) = batch_start_rows + 10

(* C1: a batch started by read_ten from Idle ends with its 10th tick, not  *)
(* before and not after: while the timer runs, fewer than 10 ticks have    *)
(* fired, batch_remaining counts the ticks that are left and every tick    *)
(* has added one row; the tick that stops the timer is the 10th, and after *)
(* it batch_remaining is 0, the timer is stopped, Read 1 and Read 10 are   *)
(* enabled and the store holds exactly 10 rows more than at read_ten,      *)
(* whatever the user did in between.                                       *)
C1_BatchOfTen ==
    /\ timer_active =>
          /\ batch_ticks < 10
          /\ batch_remaining = 10 - batch_ticks
          /\ Len(rows) = batch_start_rows + batch_ticks
          /\ ~btn_read_one_enabled /\ ~btn_read_ten_enabled
    /\ (op = "tick" /\ ~timer_active) => batch_ticks = 10
    /\ (op = "tick" /\ batch_ticks = 10) =>
          /\ BatchComplete
          /\ btn_read_one_enabled /\ btn_read_ten_enabled

\* The 10th tick has just run, with a dialog opened and a threshold edited on the way.
C1_Witness ==
    /\ op = "tick" /\ batch_ticks = 10
    /\ batch_start_rows > 0
    /\ dialog # NoDialog
    /\ h_alarm # Quarters(HAlarmDefault)

(* C2, as claimed: from every state in which a batch is running, under     *)
(* fair firing of the timer, the controller eventually reaches Idle with   *)
(* batch_remaining = 0 and 10 samples stored, Exit included.               *)
C2_AlwaysCompletes == timer_active ~> BatchComplete

(* C2, amended: from every state in which a batch is running, under fair   *)
(* firing of the timer, eventually either the controller is Idle with      *)
(* batch_remaining = 0 and 10 samples stored, or Exit has ended the event  *)
(* loop.                                                                   *)
C2_CompletesUnlessExit == timer_active ~> (BatchComplete \/ ~running)

\* A batch that ran to its end while the application was still running.
C2_Witness ==
    /\ running /\ op = "tick"
    /\ BatchComplete
    /\ status_label = << "Read 10: complete." >>

(* C3: read_ten while the timer is active changes nothing the program      *)
(* holds (batch_remaining, timer, controls, generator, store, display) and *)
(* starts no second batch.                                                 *)
C3_ReadTenNoOp ==
    [][ (timer_active /\ op' = "read_ten")
          => UNCHANGED <<progVars, batch_start_rows, batch_ticks>> ]_vars

\* read_ten ran in the middle of a batch.
C3_Witness ==
    /\ op = "read_ten" /\ timer_active
    /\ batch_remaining < BatchSize /\ batch_remaining > 0

(* C4, as claimed: _insert_reading(h, t, ts) and then _fetch_last_n(1)     *)
(* returns exactly one row, the inserted one, with the timestamp           *)
(* _insert_reading returned, whatever the store held.                      *)
C4_InsertThenFetch ==
    op = "insert_then_fetch" =>
        /\ Len(ret_rows) = 1
        /\ ret_rows[1] = LastRow
        /\ ret_rows[1].ts = ret_ts

(* C5: _fetch_last_n(n) returns min(n, rows stored) rows, never more than  *)
(* n, in non-increasing order of timestamp; they are rows of the store,    *)
(* each no more often than the store holds it, and they are the ones with  *)
(* the largest timestamps; an empty store gives the empty sequence.        *)
C5_FetchLastN ==
    op \in {"fetch", "insert_then_fetch"} =>
        LET n == arg_n
            r == ret_rows
            Count(s, x) == Cardinality({i \in 1..Len(s) : s[i] = x})
            From(s, v) == Cardinality({i \in 1..Len(s) : s[i].ts >= v})
        IN  /\ Len(r) <= n
            /\ Len(r) = (IF n <= Len(rows) THEN n ELSE Len(rows))
            /\ \A i \in 1..(Len(r) - 1) : r[i].ts >= r[i + 1].ts
            /\ \A i \in 1..Len(r) : Count(r, r[i]) <= Count(rows, r[i])
            /\ \A i \in 1..Len(rows) :
                  From(r, rows[i].ts) =
                      (IF n <= From(rows, rows[i].ts) THEN n ELSE From(rows, rows[i].ts))
            /\ (rows = << >> => r = << >>)

\* A fetch of fewer rows than an unsorted store with equal timestamps holds.
C5_Witness ==
    /\ op = "fetch" /\ arg_n = 2 /\ Len(rows) = 3
    /\ rows[1].ts < rows[2].ts /\ rows[2].ts > rows[3].ts
    /\ rows[1].ts = rows[3].ts
    /\ Len(ret_rows) = 2

(* C6: every stored reading has humidity in [0,100] and temperature in     *)
(* [-20,100]; what read_one and _batch_read_tick insert is the clamped     *)
(* pair generate_values returned; and generate_values returns a pair in    *)
(* range for every band index and every jitter in 0..10 and 0..5 (the last *)
(* conjunct does not depend on the state: it is evaluated in the initial   *)
(* states).                                                                *)
C6_PersistedInRange ==
    /\ \A i \in 1..Len(rows) :
          /\ rows[i].humidity >= Quarters(0) /\ rows[i].humidity <= Quarters(100)
          /\ rows[i].temperature >= Quarters(-20) /\ rows[i].temperature <= Quarters(100)
    /\ Sampled =>
          /\ LastRow.humidity = ClampH(hum_val)
          /\ LastRow.temperature = ClampT(temp_val)
    /\ op = "init" =>
          \A i \in 0..14, uh \in 0..Quarters(10), ut \in 0..Quarters(5) :
              LET g == generate_values(i, i, uh, ut)
              IN  /\ g.h >= Quarters(0) /\ g.h <= Quarters(100)
                  /\ g.t >= Quarters(-20) /\ g.t <= Quarters(100)

\* A sample whose temperature the clamp cut to 100 has been stored.
C6_Witness ==
    /\ Sampled
    /\ temp_val > Quarters(100)
    /\ LastRow.temperature = Quarters(100)

(* C7: every call of generate_values moves both band indices on by exactly *)
(* 1 modulo 15, whatever is drawn, and the pair it returns is the clamp of *)
(* the band at the index held before the call plus a jitter of the range.  *)
C7_IndexAdvance ==
    [][ op' = "generate_values" =>
          /\ h_index' = (IF h_index = 14 THEN 0 ELSE h_index + 1)
          /\ t_index' = (IF t_index = 14 THEN 0 ELSE t_index + 1)
          /\ \E uh \in 0..Quarters(10) :
                /\ hum_val' = Quarters(h_range[h_index + 1]) + uh
                /\ ret_ht'[1] = Max2(0, Min2(hum_val', Quarters(100)))
          /\ \E ut \in 0..Quarters(5) :
                /\ temp_val' = Quarters(t_range[t_index + 1]) + ut
                /\ ret_ht'[2] = Max2(Quarters(-20), Min2(temp_val', Quarters(100))) ]_vars

\* The call that wrapped the indices from 14 to 0, with a jitter that is not 0.
C7_Witness ==
    /\ op = "generate_values"
    /\ h_index = 0 /\ t_index = 0
    /\ hum_val = Quarters(h_range[15]) + 1
    /\ temp_val = Quarters(t_range[15]) + Quarters(5)

(* C8: right after read_one and _batch_read_tick the indicator shows       *)
(* "ALARM!" exactly if the humidity just sampled is strictly above the     *)
(* humidity threshold or the temperature just sampled strictly above the   *)
(* temperature threshold, with the thresholds of that moment; otherwise it *)
(* shows "No alarms".                                                      *)
C8_AlarmRule ==
    Sampled =>
        /\ alarm_label \in {"ALARM!", "No alarms"}
        /\ alarm_label = "ALARM!" <=>
              (LastRow.humidity > h_alarm \/ LastRow.temperature > t_alarm)

\* A sample equal to both thresholds, and no alarm.
C8_Witness ==
    /\ Sampled
    /\ LastRow.humidity = h_alarm /\ LastRow.temperature = t_alarm
    /\ alarm_label = "No alarms"

(* C9: every step leaves the stored rows as they are or appends exactly    *)
(* one row to them; read_ten, show_stats, show_last10_records, a threshold *)
(* edit and closing a dialog append none.                                  *)
C9_AppendOnly ==
    [][ /\ \/ rows' = rows
           \/ /\ Len(rows') = Len(rows) + 1
              /\ SubSeq(rows', 1, Len(rows)) = rows
        /\ op' \in {"read_ten", "show_stats", "show_last10_records", "edit_threshold",
                    "close_dialog"} => rows' = rows ]_vars

\* Show Stats on a store that holds rows of this run and of an earlier one.
C9_Witness ==
    /\ op = "show_stats"
    /\ Len(rows) >= 3
    /\ rows[1] = Row(0, Quarters(10), Quarters(20))
    /\ dialog.title = "Last 10 Stats"

(* C10: show_stats and show_last10_records on an empty store put up the    *)
(* message "No readings available yet.", raise nothing, and change neither *)
(* the store, the generator, the batch state nor the displayed values.     *)
C10_NoReadings ==
    [][ (rows = << >> /\ op' \in {"show_stats", "show_last10_records"}) =>
          /\ dialog'.text = "No readings available yet."
          /\ dialog'.data = << >>
          /\ raised' = ""
          /\ UNCHANGED <<sensorVars, rng_seed, rng_pos, storeVars, batchVars,
                         displayVars>> ]_vars

\* Show Last 10 Stats has just answered on an empty store.
C10_Witness ==
    /\ op = "show_stats"
    /\ rows = << >>
    /\ dialog = NoReadings("Stats")
    /\ raised = ""

(* C11: at most one sample+store+display sequence is in progress: no       *)
(* read_one and no _batch_read_tick begins before the handler that began   *)
(* before it has returned, a modal Stats or Records dialog open or not.    *)
C11_OneSequenceAtATime == Cardinality(InProgress) <= 1

\* A tick stands between its insert and its display while the Stats dialog is open.
C11_Witness ==
    /\ Len(stack) = 2
    /\ stack[1].handler = "show_stats"
    /\ stack[2].handler = "_batch_read_tick" /\ stack[2].pc = "display"
    /\ dialog # NoDialog
    /\ batch_ticks > 0

(* C12: in every state Read 1 and Read 10 are enabled exactly when the     *)
(* batch timer is inactive, which is exactly when batch_remaining is 0;    *)
(* batch_remaining lies in 0..10; and a read_one runs only from a state    *)
(* in which no batch is running.                                           *)
C12_ControlsIffIdle ==
    /\ [](/\ btn_read_one_enabled <=> ~timer_active
          /\ btn_read_ten_enabled <=> ~timer_active
          /\ ~timer_active <=> batch_remaining = 0
          /\ batch_remaining \in 0..10)
    /\ [][(op' = "read_one" /\ Len(rows') = Len(rows) + 1) =>
              (~timer_active /\ batch_remaining = 0)]_vars

\* One tick of a batch is left, after a read_one that followed an earlier batch.
C12_Witness ==
    /\ timer_active /\ batch_remaining = 1
    /\ ~btn_read_one_enabled /\ ~btn_read_ten_enabled
    /\ op = "tick"
    /\ batch_start_rows > 0

C15_IndicesCountInserts ==
    /\ [](/\ h_index = t_index
          /\ h_index = (Len(rows) - start_rows) % 15
          /\ rng_pos = 2 * (Len(rows) - start_rows))
    /\ [][IF op' \in {"read_one", "tick"}
          THEN /\ Len(rows') = Len(rows) + 1
               /\ rng_pos' = rng_pos + 2
               /\ h_index' = (h_index + 1) % 15
               /\ t_index' = (t_index + 1) % 15
          ELSE /\ rows' = rows
               /\ rng_pos' = rng_pos
               /\ UNCHANGED sensorVars]_vars

(* The 15th row since the start has been inserted, by the last tick of a   *)
(* batch, into a store that held a row before: the indices are back at 0.  *)
C15_Witness ==
    /\ op = "tick"
    /\ start_rows = 1
    /\ Len(rows) - start_rows = 15
    /\ h_index = 0 /\ t_index = 0
    /\ ~timer_active

(* C16: a step changes the alarm indicator only if it is a read_one or a   *)
(* _batch_read_tick: a threshold edit, read_ten, show_stats,               *)
(* show_last10_records, closing a dialog and exit_app leave it as it is,   *)
(* whatever the thresholds and the reading on display.                     *)
C16_AlarmChangesOnlyOnSample ==
    [][ /\ alarm_label' # alarm_label => op' \in {"read_one", "tick"}
        /\ op' \in {"edit_threshold", "read_ten", "show_stats", "show_last10_records",
                    "close_dialog", "exit_app"} => alarm_label' = alarm_label ]_vars

(* A threshold has just been edited below the reading on display, the one  *)
(* sampled last: the alarm rule on that reading and the new thresholds     *)
(* gives an alarm, the indicator still shows none.                         *)
C16_Witness ==
    /\ op = "edit_threshold"
    /\ Len(rows) > start_rows
    /\ h_label = << Fmt1(LastRow.humidity) >> /\ t_label = << Fmt1(LastRow.temperature) >>
    /\ _check_alarms(LastRow.humidity, LastRow.temperature, h_alarm, t_alarm)
    /\ alarm_label = "No alarms"

=============================================================================
